---- MODULE Spec2Model ----
(***************************************************************************)
(* Model of the Cass-Game-Tracker collector: the session/segment store     *)
(* (backend/src/segments.ts, migrations/001_init.sql) and the engine       *)
(* operations that mutate it (handleNotification and reconcileStreamState  *)
(* of the collector entry point).                                          *)
(*                                                                         *)
(* Every handler is an async function: it gives up control at each await,  *)
(* so a handler invocation is a task with a program counter, and one       *)
(* action is one awaited store query or upstream call.  Nothing in the     *)
(* code serialises handler invocations, so the steps of different tasks    *)
(* interleave freely.                                                      *)
(*                                                                         *)
(* Instants are counted in ticks of half a second, so that the flooring    *)
(* of durations to whole seconds is visible.                               *)
(***************************************************************************)
EXTENDS Integers, Sequences, FiniteSets, TLC

\* ---------------------------------------------------------------- bounds
MaxTime == 2
MaxOps == 3
MaxTasks == 2
MaxSerialOps == 4
MaxScenarioStart == 2
MaxSockets == 3
MaxMessages == 4
MaxRedials == 8

\* ------------------------------------------------------------- constants
TicksPerSecond == 2

Times == 0..MaxTime
Tasks == 1..MaxTasks

NoTime == -1
NoDur == -1

Broadcaster == "b1"

\* stream ids: reported by upstream, or synthesised from an instant
NoStream == [src |-> "none", n |-> 0]
EventStreamIds == {[src |-> "event", n |-> 1], [src |-> "event", n |-> 2]}
UnknownId(ts) == [src |-> "unknown", n |-> ts]
BootstrapId(now) == [src |-> "bootstrap", n |-> now]

\* instants at which upstream data without a stream id is delivered
IdlessTimes == {0}

\* event?.id ?? `unknown_${ts.getTime()}`
OnlineStreamIds(ts) == EventStreamIds \cup {UnknownId(x) : x \in {ts} \cap IdlessTimes}

\* stream.id ?? `bootstrap_${Date.now()}`
ReconcileStreamIds(now) == EventStreamIds \cup {BootstrapId(x) : x \in {now} \cap IdlessTimes}

\* categories: (category_id, category_name); "null" is the SQL NULL id
UnknownCat == [id |-> "null", name |-> "Unknown"]
Cats == {[id |-> "g1", name |-> "Chess"],
         [id |-> "null", name |-> "Chess"],
         [id |-> "g2", name |-> "Poker"]}

\* a row of category_segments is identified by its UNIQUE key (stream_id, started_at,
\* category_name): rows are never deleted and their key columns are never updated, so
\* the BIGSERIAL id names the same row as the key does
NoSeg == [streamId |-> NoStream, categoryId |-> "null", categoryName |-> "none",
          startedAt |-> NoTime]

VARIABLES
  streams,    \* table streams: stream_id -> row
  segments,   \* table category_segments: set of rows
  tasks,      \* handler invocations in flight: slot -> locals and position
  started,    \* number of handler invocations started so far
  exports,    \* number of sheet exports started so far
  last,       \* serial runs: the invocation that ran most recently
  script,     \* scripted runs: the notifications to deliver, in order
  sockets,    \* every WebSocket created so far, in creation order
  active,     \* connectEventSub: the socket designated active (0 is null)
  draining,   \* connectEventSub: the superseded sockets not yet closed by the connector
  reconnectAttempts,  \* connectEventSub: reconnects scheduled since the last welcome
  reconnectTimer,     \* connectEventSub: delay of the pending timer (0 is null)
  messages,   \* every message received so far, in order of receipt
  handlers,   \* message handler invocations in flight
  eventsRaw,  \* table events_raw: the messages recorded so far
  dispatched, \* the messages handed to handleNotification so far
  process,    \* main: the await it stands at ("running" once it has returned, "exited")
  baselineGames,  \* table baseline_games: set of rows
  totals      \* what getGlobalGameTotals returned most recently

engineVars == <<streams, segments, tasks, started, exports, last, script>>
connVars == <<sockets, active, draining, reconnectAttempts, reconnectTimer, messages,
              handlers, eventsRaw, dispatched>>
hostVars == <<process>>
aggVars == <<baselineGames, totals>>
vars == <<engineVars, connVars, hostVars, aggVars>>

Min(a, b) == IF a <= b THEN a ELSE b
Max(a, b) == IF a >= b THEN a ELSE b

IdleTask == [pc |-> "idle", kind |-> "none", ts |-> NoTime, streamId |-> NoStream,
             cat |-> UnknownCat, open |-> NoSeg]

NoEvent == [kind |-> "none", ts |-> NoTime, streamId |-> NoStream, cat |-> UnknownCat,
            live |-> FALSE, ok |-> FALSE]

\* ------------------------------------------------------ store operations
\* Each takes the table it reads (strs: streams, segs: category_segments) and yields
\* the table after the query, or the set of rows the query may return.

\* getActiveStream: SELECT ... WHERE ended_at IS NULL ORDER BY started_at DESC LIMIT 1
ActiveStreams(strs, b) ==
  {s \in DOMAIN strs : strs[s].broadcasterId = b /\ strs[s].endedAt = NoTime}

\* a variant without the ended_at IS NULL condition
getActiveStreamAnyRow(strs, b) ==
  IF {s \in DOMAIN strs : strs[s].broadcasterId = b} = {} THEN {NoStream}
  ELSE {s \in DOMAIN strs :
          \A o \in DOMAIN strs : strs[o].startedAt <= strs[s].startedAt}

getActiveStream(strs, b) ==
  IF ActiveStreams(strs, b) = {} THEN {NoStream}
  ELSE {s \in ActiveStreams(strs, b) :
          \A o \in ActiveStreams(strs, b) : strs[o].startedAt <= strs[s].startedAt}

\* a variant that overwrites started_at on conflict (no LEAST)
upsertStreamOnlineOverwrite(strs, sid, b, startedAt) ==
  IF sid \in DOMAIN strs
  THEN [strs EXCEPT ![sid].broadcasterId = b, ![sid].startedAt = startedAt]
  ELSE strs @@ (sid :> [broadcasterId |-> b, startedAt |-> startedAt,
                        endedAt |-> NoTime, endedReason |-> "null"])

\* upsertStreamOnline: INSERT ... ON CONFLICT (stream_id) DO UPDATE ... LEAST(...)
upsertStreamOnline(strs, sid, b, startedAt) ==
  IF sid \in DOMAIN strs
  THEN [strs EXCEPT ![sid].broadcasterId = b,
                    ![sid].startedAt = Min(strs[sid].startedAt, startedAt)]
  ELSE strs @@ (sid :> [broadcasterId |-> b, startedAt |-> startedAt,
                        endedAt |-> NoTime, endedReason |-> "null"])

\* markStreamOffline: UPDATE streams SET ended_at, ended_reason WHERE stream_id
markStreamOffline(strs, sid, endedAt, reason) ==
  IF sid \in DOMAIN strs
  THEN [strs EXCEPT ![sid].endedAt = endedAt, ![sid].endedReason = reason]
  ELSE strs

\* getOpenSegment: SELECT ... WHERE ended_at IS NULL ORDER BY started_at DESC LIMIT 1
OpenSegments(segs, sid) ==
  {g \in segs : g.streamId = sid /\ g.endedAt = NoTime}

SegSnapshot(g) ==
  [streamId |-> g.streamId, categoryId |-> g.categoryId,
   categoryName |-> g.categoryName, startedAt |-> g.startedAt]

getOpenSegment(segs, sid) ==
  IF OpenSegments(segs, sid) = {} THEN {NoSeg}
  ELSE {SegSnapshot(g) : g \in
          {h \in OpenSegments(segs, sid) :
             \A o \in OpenSegments(segs, sid) : o.startedAt <= h.startedAt}}

\* startSegment: INSERT ... ON CONFLICT (stream_id, started_at, category_name) DO NOTHING
startSegment(segs, sid, cat, startedAt) ==
  IF \E g \in segs :
       /\ g.streamId = sid
       /\ g.startedAt = startedAt
       /\ g.categoryName = cat.name
  THEN segs
  ELSE segs \cup {[streamId |-> sid, categoryId |-> cat.id, categoryName |-> cat.name,
                   startedAt |-> startedAt, endedAt |-> NoTime,
                   durationSeconds |-> NoDur]}

\* a variant without the clamp at zero
DurationUnclamped(endedAt, startedAt) == (endedAt - startedAt) \div TicksPerSecond

\* closeOpenSegment, duration: Math.max(0, Math.floor((endedAt - startedAt) / 1000))
Duration(endedAt, startedAt) == Max(0, (endedAt - startedAt) \div TicksPerSecond)

SameRow(g, open) ==
  /\ g.streamId = open.streamId
  /\ g.startedAt = open.startedAt
  /\ g.categoryName = open.categoryName

\* closeOpenSegment, write: UPDATE category_segments SET ended_at, duration_seconds WHERE id
closeSegmentWrite(segs, open, endedAt) ==
  {IF SameRow(g, open)
   THEN [g EXCEPT !.endedAt = endedAt,
                  !.durationSeconds = Duration(endedAt, open.startedAt)]
   ELSE g : g \in segs}

\* closeOpenSegment, run without interruption: the tables it may leave
closeOpenSegment(segs, sid, endedAt) ==
  {IF o = NoSeg THEN segs ELSE closeSegmentWrite(segs, o, endedAt) :
     o \in getOpenSegment(segs, sid)}

\* a variant with the comparison of the names inverted
SameCategoryInverted(open, cat) ==
  open # NoSeg /\ open.categoryName # cat.name /\ open.categoryId = cat.id

\* rotateSegment, guard: same category means same name and same (possibly null) id
SameCategory(open, cat) ==
  open # NoSeg /\ open.categoryName = cat.name /\ open.categoryId = cat.id

\* a variant that opens the next segment without closing the open one
rotateSegmentNoClose(segs, sid, cat, at) ==
  {IF SameCategory(o, cat) THEN segs ELSE startSegment(segs, sid, cat, at) :
     o \in getOpenSegment(segs, sid)}

\* rotateSegment, run without interruption: the tables it may leave
rotateSegment(segs, sid, cat, at) ==
  UNION {IF SameCategory(o, cat)
         THEN {segs}
         ELSE {startSegment(c, sid, cat, at) : c \in closeOpenSegment(segs, sid, at)} :
           o \in getOpenSegment(segs, sid)}

\* ------------------------------------------------------------------ Init
Init ==
  /\ streams = <<>>
  /\ segments = {}
  /\ tasks = [t \in Tasks |-> IdleTask]
  /\ started = 0
  /\ exports = 0
  /\ last = NoEvent
  /\ script = <<>>
  /\ sockets = <<>>
  /\ active = 0
  /\ draining = {}
  /\ reconnectAttempts = 0
  /\ reconnectTimer = 0
  /\ messages = <<>>
  /\ handlers = {}
  /\ eventsRaw = {}
  /\ dispatched = {}
  /\ process = "running"
  /\ baselineGames = {}
  /\ totals = {}

Free(t) == tasks[t].pc = "idle"

\* a new invocation takes the lowest free slot (slots are interchangeable)
Slot(t) == Free(t) /\ \A u \in Tasks : u < t => ~Free(u)

\* the handler returns or throws: its locals are gone
Return(t) == tasks' = [tasks EXCEPT ![t] = IdleTask]

Goto(t, pc) ==
  IF pc = "done" THEN Return(t) ELSE tasks' = [tasks EXCEPT ![t].pc = pc]

\* --------------------------------------------------------------- actions

\* a handler rejects. The eager reconcile run is awaited by main with no catch, so its
\* rejection rejects main and main().catch calls process.exit(1); every other caller
\* (the interval's .catch, the message handler's try/catch) only logs.
Thrown == process' = IF process = "reconcileStreamState" THEN "exited" ELSE process

\* a stream.online notification arrives: handleNotification is entered
StartOnline(t) ==
  /\ Slot(t) /\ started < MaxOps
  /\ \E ts \in Times :
       \E sid \in OnlineStreamIds(ts) :
         tasks' = [tasks EXCEPT ![t] = [IdleTask EXCEPT !.pc = "upsert", !.kind = "online",
                                                         !.ts = ts, !.streamId = sid]]
  /\ started' = started + 1
  /\ UNCHANGED <<streams, segments, exports, last, script, connVars, hostVars, aggVars>>

\* a channel.update notification arrives
StartUpdate(t) ==
  /\ Slot(t) /\ started < MaxOps
  /\ \E ts \in Times, cat \in Cats :
       tasks' = [tasks EXCEPT ![t] = [IdleTask EXCEPT !.pc = "getActive", !.kind = "update",
                                                       !.ts = ts, !.cat = cat]]
  /\ started' = started + 1
  /\ UNCHANGED <<streams, segments, exports, last, script, connVars, hostVars, aggVars>>

\* a stream.offline notification arrives
StartOffline(t) ==
  /\ Slot(t) /\ started < MaxOps
  /\ \E ts \in Times :
       tasks' = [tasks EXCEPT ![t] = [IdleTask EXCEPT !.pc = "getActive", !.kind = "offline",
                                                       !.ts = ts]]
  /\ started' = started + 1
  /\ UNCHANGED <<streams, segments, exports, last, script, connVars, hostVars, aggVars>>

\* the reconcile timer fires (or the eager run at start)
StartReconcile(t) ==
  /\ Slot(t) /\ started < MaxOps
  /\ tasks' = [tasks EXCEPT ![t] = [IdleTask EXCEPT !.pc = "getActive", !.kind = "reconcile"]]
  /\ started' = started + 1
  /\ UNCHANGED <<streams, segments, exports, last, script, connVars, hostVars, aggVars>>

\* await upsertStreamOnline(...)
Upsert(t) ==
  /\ tasks[t].pc = "upsert"
  /\ streams' = upsertStreamOnline(streams, tasks[t].streamId, Broadcaster, tasks[t].ts)
  /\ Goto(t, IF tasks[t].kind = "online" THEN "fetchGame" ELSE "startSeg")
  /\ UNCHANGED <<segments, started, exports, last, script, connVars, hostVars, aggVars>>

\* await getAppAccessToken(...); await getLiveStreamGame(...): the upstream answers
FetchGame(t) ==
  /\ tasks[t].pc = "fetchGame"
  /\ \E cat \in Cats : tasks' = [tasks EXCEPT ![t].pc = "startSeg", ![t].cat = cat]
  /\ UNCHANGED <<streams, segments, started, exports, last, script, connVars, hostVars, aggVars>>

\* an upstream call (token, streams query) rejects: the handler throws
UpstreamError(t) ==
  /\ tasks[t].pc \in {"fetchGame", "fetch"}
  /\ Goto(t, "done")
  /\ Thrown
  /\ UNCHANGED <<streams, segments, started, exports, last, script, connVars, aggVars>>

\* await startSegment(...)
StartSeg(t) ==
  /\ tasks[t].pc = "startSeg"
  /\ segments' = startSegment(segments, tasks[t].streamId, tasks[t].cat, tasks[t].ts)
  /\ Goto(t, "done")
  /\ UNCHANGED <<streams, started, exports, last, script, connVars, hostVars, aggVars>>

\* const active = await getActiveStream(...); if (!active) return
GetActive(t) ==
  /\ tasks[t].pc = "getActive"
  /\ \E a \in getActiveStream(streams, Broadcaster) :
       tasks' = [tasks EXCEPT ![t] =
                   CASE tasks[t].kind = "reconcile" -> [@ EXCEPT !.streamId = a, !.pc = "fetch"]
                     [] a = NoStream -> IdleTask
                     [] tasks[t].kind = "update" -> [@ EXCEPT !.streamId = a, !.pc = "rotRead"]
                     [] OTHER -> [@ EXCEPT !.streamId = a, !.pc = "closeRead"]]
  /\ UNCHANGED <<streams, segments, started, exports, last, script, connVars, hostVars, aggVars>>

\* rotateSegment: const open = await getOpenSegment(...); same category => return
RotRead(t) ==
  /\ tasks[t].pc = "rotRead"
  /\ \E o \in getOpenSegment(segments, tasks[t].streamId) :
       tasks' = [tasks EXCEPT ![t] =
                   IF SameCategory(o, tasks[t].cat)
                   THEN IdleTask ELSE [@ EXCEPT !.pc = "closeRead"]]
  /\ UNCHANGED <<streams, segments, started, exports, last, script, connVars, hostVars, aggVars>>

\* a variant that goes to the export without marking the session ended
AfterCloseSkipsMark(t) ==
  IF tasks[t].kind = "update" THEN "startSeg" ELSE "export"

AfterClose(t) ==
  IF tasks[t].kind = "update" THEN "startSeg" ELSE "markOffline"

\* closeOpenSegment: const open = await getOpenSegment(...); if (!open) return
CloseRead(t) ==
  /\ tasks[t].pc = "closeRead"
  /\ \E o \in getOpenSegment(segments, tasks[t].streamId) :
       tasks' = [tasks EXCEPT ![t].open = o,
                              ![t].pc = IF o = NoSeg THEN AfterClose(t) ELSE "closeWrite"]
  /\ UNCHANGED <<streams, segments, started, exports, last, script, connVars, hostVars, aggVars>>

\* closeOpenSegment: await pool.query(UPDATE category_segments ...)
CloseWrite(t) ==
  /\ tasks[t].pc = "closeWrite"
  /\ segments' = closeSegmentWrite(segments, tasks[t].open, tasks[t].ts)
  /\ tasks' = [tasks EXCEPT ![t].pc = AfterClose(t), ![t].open = NoSeg]
  /\ UNCHANGED <<streams, started, exports, last, script, connVars, hostVars, aggVars>>

EndReason(t) == IF tasks[t].kind = "offline" THEN "offline_event" ELSE "recovered_offline"

\* await markStreamOffline(...)
MarkOffline(t) ==
  /\ tasks[t].pc = "markOffline"
  /\ streams' = markStreamOffline(streams, tasks[t].streamId, tasks[t].ts, EndReason(t))
  /\ Goto(t, "export")
  /\ UNCHANGED <<segments, started, exports, last, script, connVars, hostVars, aggVars>>

\* await exportTotalsToSheet(...)
Export(t) ==
  /\ tasks[t].pc = "export"
  /\ exports' = exports + 1
  /\ Goto(t, "done")
  /\ UNCHANGED <<streams, segments, started, last, script, connVars, hostVars, aggVars>>

\* reconcileStreamState: the upstream streams query answers; the two recovery branches.
\* now is the local wall clock (new Date(), Date.now()), read after the answer.
Fetch(t) ==
  /\ tasks[t].pc = "fetch"
  /\ \E now \in Times :
       \/ \* upstream is live
          \E sid \in ReconcileStreamIds(now), at \in Times, cat \in Cats :
            tasks' = [tasks EXCEPT ![t] =
                        IF tasks[t].streamId = NoStream
                        THEN [@ EXCEPT !.pc = "upsert", !.streamId = sid, !.ts = at,
                                       !.cat = cat]
                        ELSE IdleTask]
       \/ \* upstream is not live
          tasks' = [tasks EXCEPT ![t] =
                      IF tasks[t].streamId # NoStream
                      THEN [@ EXCEPT !.pc = "closeRead", !.ts = now]
                      ELSE IdleTask]
  /\ UNCHANGED <<streams, segments, started, exports, last, script, connVars, hostVars, aggVars>>

\* a store query rejects: the handler throws at that await
StoreError(t) ==
  /\ tasks[t].pc \in {"upsert", "startSeg", "getActive", "rotRead", "closeRead",
                      "closeWrite", "markOffline", "export"}
  /\ Goto(t, "done")
  /\ Thrown
  /\ UNCHANGED <<streams, segments, started, exports, last, script, connVars, aggVars>>

Next ==
  \/ \E t \in Tasks : StartOnline(t)
  \/ \E t \in Tasks : StartUpdate(t)
  \/ \E t \in Tasks : StartOffline(t)
  \/ \E t \in Tasks : StartReconcile(t)
  \/ \E t \in Tasks : Upsert(t)
  \/ \E t \in Tasks : FetchGame(t)
  \/ \E t \in Tasks : UpstreamError(t)
  \/ \E t \in Tasks : StartSeg(t)
  \/ \E t \in Tasks : GetActive(t)
  \/ \E t \in Tasks : RotRead(t)
  \/ \E t \in Tasks : CloseRead(t)
  \/ \E t \in Tasks : CloseWrite(t)
  \/ \E t \in Tasks : MarkOffline(t)
  \/ \E t \in Tasks : Export(t)
  \/ \E t \in Tasks : Fetch(t)
  \/ \E t \in Tasks : StoreError(t)

Spec == Init /\ [][Next]_vars

\* ------------------------------------------------------- the process, from main
\* process is the await main stands at. Notifications and interval runs exist only
\* once main has returned ("running"); nothing runs after process.exit ("exited").

\* what an earlier run of the process left in the store: nothing, or a session still
\* marked active with its segment open
LeftBehind ==
  {[strs |-> <<>>, segs |-> {}]} \cup
  {[strs |-> upsertStreamOnline(<<>>, sid, Broadcaster, 0),
    segs |-> startSegment({}, sid, cat, 0)] : sid \in OnlineStreamIds(0), cat \in Cats}

InitMain ==
  /\ \E db \in LeftBehind : streams = db.strs /\ segments = db.segs
  /\ tasks = [t \in Tasks |-> IdleTask]
  /\ started = 0
  /\ exports = 0
  /\ last = NoEvent
  /\ script = <<>>
  /\ sockets = <<>>
  /\ active = 0
  /\ draining = {}
  /\ reconnectAttempts = 0
  /\ reconnectTimer = 0
  /\ messages = <<>>
  /\ handlers = {}
  /\ eventsRaw = {}
  /\ dispatched = {}
  /\ process = "applyMigrations"
  /\ baselineGames = {}
  /\ totals = {}

\* await applyMigrations(...) / await getAppAccessToken(...) resolves
MainResolves ==
  /\ \/ process = "applyMigrations" /\ process' = "getAppAccessToken"
     \/ process = "getAppAccessToken" /\ process' = "getBroadcasterUser"
  /\ UNCHANGED <<engineVars, connVars, aggVars>>

\* one of the awaits before the eager run rejects: main().catch, process.exit(1)
MainRejects ==
  /\ process \in {"applyMigrations", "getAppAccessToken", "getBroadcasterUser"}
  /\ process' = "exited"
  /\ UNCHANGED <<engineVars, connVars, aggVars>>

\* await getBroadcasterUser(...) resolves: main calls reconcileStreamState and awaits it
IdentityResolved ==
  /\ process = "getBroadcasterUser"
  /\ process' = "reconcileStreamState"
  /\ tasks' = [tasks EXCEPT ![1] = [IdleTask EXCEPT !.pc = "getActive", !.kind = "reconcile"]]
  /\ started' = started + 1
  /\ UNCHANGED <<streams, segments, exports, last, script, connVars, aggVars>>

\* the eager run has returned: setInterval, server.listen, connectEventSub
EagerReturns ==
  /\ process = "reconcileStreamState"
  /\ \A t \in Tasks : Free(t)
  /\ process' = "running"
  /\ UNCHANGED <<engineVars, connVars, aggVars>>

Arrives ==
  \E t \in Tasks : StartOnline(t) \/ StartUpdate(t) \/ StartOffline(t) \/ StartReconcile(t)

NextMain ==
  \/ MainResolves
  \/ MainRejects
  \/ IdentityResolved
  \/ EagerReturns
  \/ process = "running" /\ Arrives
  \/ process # "exited" /\ \E t \in Tasks : Upsert(t)
  \/ process # "exited" /\ \E t \in Tasks : FetchGame(t)
  \/ process # "exited" /\ \E t \in Tasks : UpstreamError(t)
  \/ process # "exited" /\ \E t \in Tasks : StartSeg(t)
  \/ process # "exited" /\ \E t \in Tasks : GetActive(t)
  \/ process # "exited" /\ \E t \in Tasks : RotRead(t)
  \/ process # "exited" /\ \E t \in Tasks : CloseRead(t)
  \/ process # "exited" /\ \E t \in Tasks : CloseWrite(t)
  \/ process # "exited" /\ \E t \in Tasks : MarkOffline(t)
  \/ process # "exited" /\ \E t \in Tasks : Export(t)
  \/ process # "exited" /\ \E t \in Tasks : Fetch(t)
  \/ process # "exited" /\ \E t \in Tasks : StoreError(t)

SpecMain == InitMain /\ [][NextMain]_vars

\* ------------------------------------------------ handlers run one at a time
\* The same handlers, each run from entry to return (or throw) with no other handler
\* running in between: the runs of Spec in which no two invocations overlap.

Event(kind, ts, sid, cat, live, ok) ==
  [kind |-> kind, ts |-> ts, streamId |-> sid, cat |-> cat, live |-> live, ok |-> ok]

Ran(e) ==
  /\ started < MaxSerialOps
  /\ started' = started + 1
  /\ last' = e
  /\ UNCHANGED <<tasks, script, connVars, hostVars, aggVars>>

\* handleNotification, stream.online
OnWentLive ==
  \E ts \in Times : \E sid \in OnlineStreamIds(ts) :
    \/ \* upsert, category lookup, first segment
       \E cat \in Cats :
         /\ streams' = upsertStreamOnline(streams, sid, Broadcaster, ts)
         /\ segments' = startSegment(segments, sid, cat, ts)
         /\ Ran(Event("online", ts, sid, cat, FALSE, TRUE))
         /\ UNCHANGED exports
    \/ \* the category lookup (or the segment insert) rejects after the upsert
       /\ streams' = upsertStreamOnline(streams, sid, Broadcaster, ts)
       /\ Ran(Event("online", ts, sid, UnknownCat, FALSE, FALSE))
       /\ UNCHANGED <<segments, exports>>

\* handleNotification, channel.update
OnCategoryChanged ==
  \E ts \in Times, cat \in Cats : \E a \in getActiveStream(streams, Broadcaster) :
    \/ /\ IF a = NoStream THEN segments' = segments
          ELSE segments' \in rotateSegment(segments, a, cat, ts)
       /\ Ran(Event("update", ts, a, cat, FALSE, TRUE))
       /\ UNCHANGED <<streams, exports>>
    \/ \* the segment insert rejects after the close
       /\ a # NoStream
       /\ \E o \in getOpenSegment(segments, a) :
            /\ ~SameCategory(o, cat)
            /\ segments' \in closeOpenSegment(segments, a, ts)
       /\ Ran(Event("update", ts, a, cat, FALSE, FALSE))
       /\ UNCHANGED <<streams, exports>>

\* handleNotification, stream.offline
OnWentOffline ==
  \E ts \in Times : \E a \in getActiveStream(streams, Broadcaster) :
    \/ /\ IF a = NoStream THEN UNCHANGED <<streams, segments, exports>>
          ELSE /\ segments' \in closeOpenSegment(segments, a, ts)
               /\ streams' = markStreamOffline(streams, a, ts, "offline_event")
               /\ exports' = exports + 1
       /\ Ran(Event("offline", ts, a, UnknownCat, FALSE, TRUE))
    \/ \* the session update rejects after the close
       /\ a # NoStream
       /\ segments' \in closeOpenSegment(segments, a, ts)
       /\ Ran(Event("offline", ts, a, UnknownCat, FALSE, FALSE))
       /\ UNCHANGED <<streams, exports>>

\* a variant that recovers a missed online without looking at the local session
ReconcileIgnoresLocal ==
  \E a \in getActiveStream(streams, Broadcaster) :
    \/ \* the upstream query rejects
       /\ Ran(Event("reconcile", NoTime, a, UnknownCat, FALSE, FALSE))
       /\ UNCHANGED <<streams, segments, exports>>
    \/ \* upstream live, no local active session: recover the missed online
       /\ a = NoStream
       /\ \E now \in Times : \E sid \in ReconcileStreamIds(now), at \in Times, cat \in Cats :
            /\ streams' = upsertStreamOnline(streams, sid, Broadcaster, at)
            /\ segments' = startSegment(segments, sid, cat, at)
            /\ Ran(Event("reconcile", at, sid, cat, TRUE, TRUE))
       /\ UNCHANGED exports
    \/ \* upstream live, local active session
       /\ a # NoStream
       /\ \E now \in Times : \E sid \in ReconcileStreamIds(now), at \in Times, cat \in Cats :
            /\ streams' = upsertStreamOnline(streams, sid, Broadcaster, at)
            /\ segments' = startSegment(segments, sid, cat, at)
            /\ Ran(Event("reconcile", NoTime, a, UnknownCat, TRUE, TRUE))
       /\ UNCHANGED exports
    \/ \* upstream not live, local active session: recover the missed offline
       /\ a # NoStream
       /\ \E now \in Times :
            /\ segments' \in closeOpenSegment(segments, a, now)
            /\ streams' = markStreamOffline(streams, a, now, "recovered_offline")
            /\ Ran(Event("reconcile", now, a, UnknownCat, FALSE, TRUE))
       /\ exports' = exports + 1
    \/ \* upstream not live, no local active session
       /\ a = NoStream
       /\ Ran(Event("reconcile", NoTime, a, UnknownCat, FALSE, TRUE))
       /\ UNCHANGED <<streams, segments, exports>>

\* reconcileStreamState
Reconcile ==
  \E a \in getActiveStream(streams, Broadcaster) :
    \/ \* the upstream query rejects
       /\ Ran(Event("reconcile", NoTime, a, UnknownCat, FALSE, FALSE))
       /\ UNCHANGED <<streams, segments, exports>>
    \/ \* upstream live, no local active session: recover the missed online
       /\ a = NoStream
       /\ \E now \in Times : \E sid \in ReconcileStreamIds(now), at \in Times, cat \in Cats :
            /\ streams' = upsertStreamOnline(streams, sid, Broadcaster, at)
            /\ segments' = startSegment(segments, sid, cat, at)
            /\ Ran(Event("reconcile", at, sid, cat, TRUE, TRUE))
       /\ UNCHANGED exports
    \/ \* upstream live, local active session
       /\ a # NoStream
       /\ Ran(Event("reconcile", NoTime, a, UnknownCat, TRUE, TRUE))
       /\ UNCHANGED <<streams, segments, exports>>
    \/ \* upstream not live, local active session: recover the missed offline
       /\ a # NoStream
       /\ \E now \in Times :
            /\ segments' \in closeOpenSegment(segments, a, now)
            /\ streams' = markStreamOffline(streams, a, now, "recovered_offline")
            /\ Ran(Event("reconcile", now, a, UnknownCat, FALSE, TRUE))
       /\ exports' = exports + 1
    \/ \* upstream not live, no local active session
       /\ a = NoStream
       /\ Ran(Event("reconcile", NoTime, a, UnknownCat, FALSE, TRUE))
       /\ UNCHANGED <<streams, segments, exports>>

NextSerial ==
  \/ started < MaxSerialOps /\ OnWentLive
  \/ started < MaxSerialOps /\ OnCategoryChanged
  \/ started < MaxSerialOps /\ OnWentOffline
  \/ started < MaxSerialOps /\ Reconcile

SpecSerial == Init /\ [][NextSerial]_vars

\* ------------------------------------------------- scripted deliveries
\* A fixed sequence of notifications, handled one at a time and without failures:
\* script[k] is the k-th notification, its cat the category it carries (channel.update)
\* or the category the lookup returns for it (stream.online).

Seconds(n) == n * TicksPerSecond

ScenarioStarts == 0..MaxScenarioStart

NamedCats(name) == {c \in Cats : c.name = name}

\* went-live at t0 in Chess, category change to Poker 600 s later, went-offline 1800 s
\* after t0
ScenarioScripts ==
  {<<Event("online", t0, sid, chess, FALSE, TRUE),
     Event("update", t0 + Seconds(600), NoStream, poker, FALSE, TRUE),
     Event("offline", t0 + Seconds(1800), NoStream, UnknownCat, FALSE, TRUE)>> :
     t0 \in ScenarioStarts, sid \in EventStreamIds,
     chess \in NamedCats("Chess"), poker \in NamedCats("Poker")}

\* went-live, a category change, a later category change, then the first category
\* change delivered again; each change names another category than the one before it
RedeliveryScripts ==
  {<<Event("online", t[1], sid, c[1], FALSE, TRUE),
     Event("update", t[2], NoStream, c[2], FALSE, TRUE),
     Event("update", t[3], NoStream, c[3], FALSE, TRUE),
     Event("update", t[2], NoStream, c[2], FALSE, TRUE)>> :
     t \in {x \in [1..3 -> Times] : x[1] <= x[2] /\ x[2] < x[3]},
     sid \in EventStreamIds,
     c \in {x \in [1..3 -> Cats] : x[1].name # x[2].name /\ x[2].name # x[3].name}}

Scripts == ScenarioScripts \cup RedeliveryScripts

InitScript ==
  /\ streams = <<>>
  /\ segments = {}
  /\ tasks = [t \in Tasks |-> IdleTask]
  /\ started = 0
  /\ exports = 0
  /\ last = NoEvent
  /\ script \in Scripts
  /\ sockets = <<>>
  /\ active = 0
  /\ draining = {}
  /\ reconnectAttempts = 0
  /\ reconnectTimer = 0
  /\ messages = <<>>
  /\ handlers = {}
  /\ eventsRaw = {}
  /\ dispatched = {}
  /\ process = "running"
  /\ baselineGames = {}
  /\ totals = {}

\* the next notification of the script is handed to handleNotification
Delivered(kind) ==
  /\ started < Len(script)
  /\ script[started + 1].kind = kind
  /\ started' = started + 1
  /\ last' = script[started + 1]
  /\ UNCHANGED <<tasks, script, connVars, hostVars, aggVars>>

\* handleNotification, stream.online
DeliverOnline ==
  /\ Delivered("online")
  /\ streams' = upsertStreamOnline(streams, last'.streamId, Broadcaster, last'.ts)
  /\ segments' = startSegment(segments, last'.streamId, last'.cat, last'.ts)
  /\ UNCHANGED exports

\* handleNotification, channel.update
DeliverUpdate ==
  /\ Delivered("update")
  /\ \E a \in getActiveStream(streams, Broadcaster) :
       IF a = NoStream THEN segments' = segments
       ELSE segments' \in rotateSegment(segments, a, last'.cat, last'.ts)
  /\ UNCHANGED <<streams, exports>>

\* handleNotification, stream.offline
DeliverOffline ==
  /\ Delivered("offline")
  /\ \E a \in getActiveStream(streams, Broadcaster) :
       IF a = NoStream THEN UNCHANGED <<streams, segments, exports>>
       ELSE /\ segments' \in closeOpenSegment(segments, a, last'.ts)
            /\ streams' = markStreamOffline(streams, a, last'.ts, "offline_event")
            /\ exports' = exports + 1

NextScript ==
  \/ DeliverOnline
  \/ DeliverUpdate
  \/ DeliverOffline

SpecScript == InitScript /\ [][NextScript]_vars

\* ---------------------------------------------------------- the connector
\* connectEventSub: the sockets, the active / draining designation and the reconnect
\* timer.  A socket is named by its position in sockets; its url is 0 for the default
\* endpoint, or the number of the session_reconnect message that carried the URL.
\* Upstream follows the EventSub protocol: the first message on a connection is its
\* session_welcome, and a connection gets at most one session_reconnect.  A message
\* handler awaits the insert into events_raw before it looks at the message, so the
\* handlers of several messages are in flight together and finish in any order.

Sockets == 1..Len(sockets)

MessageTypes == {"session_welcome", "session_reconnect", "notification",
                 "session_keepalive"}

\* arg: the welcome carries a session id / the reconnect carries a reconnect_url
Message(s, type, arg) == [sock |-> s, type |-> type, arg |-> arg]

RECURSIVE Pow2(_)
Pow2(n) == IF n = 0 THEN 1 ELSE 2 * Pow2(n - 1)

\* a variant without the 30 s cap
BackoffUncapped(attempts) == 1000 * Pow2(Min(5, attempts - 1))

\* scheduleReconnect: Math.min(30_000, 1000 * Math.pow(2, Math.min(5, attempts - 1)))
Backoff(attempts) == Min(30000, 1000 * Pow2(Min(5, attempts - 1)))

InitConn ==
  /\ streams = <<>>
  /\ segments = {}
  /\ tasks = [t \in Tasks |-> IdleTask]
  /\ started = 0
  /\ exports = 0
  /\ last = NoEvent
  /\ script = <<>>
  /\ sockets = <<[url |-> 0, state |-> "open"]>>
  /\ active = 1
  /\ draining = {}
  /\ reconnectAttempts = 0
  /\ reconnectTimer = 0
  /\ messages = <<>>
  /\ handlers = {}
  /\ eventsRaw = {}
  /\ dispatched = {}
  /\ process = "running"
  /\ baselineGames = {}
  /\ totals = {}

\* a variant that leaves a pending timer pending
startSocketKeepsTimer(url) ==
  /\ reconnectTimer' = reconnectTimer
  /\ sockets' = Append(sockets, [url |-> url, state |-> "open"])
  /\ draining' = IF active # 0 THEN draining \cup {active} ELSE draining
  /\ active' = Len(sockets) + 1

\* a variant that forgets the socket it supersedes
startSocketNoDrain(url) ==
  /\ reconnectTimer' = 0
  /\ sockets' = Append(sockets, [url |-> url, state |-> "open"])
  /\ draining' = draining
  /\ active' = Len(sockets) + 1

\* startSocket(url)
startSocket(url) ==
  /\ reconnectTimer' = 0
  /\ sockets' = Append(sockets, [url |-> url, state |-> "open"])
  /\ draining' = IF active # 0 THEN draining \cup {active} ELSE draining
  /\ active' = Len(sockets) + 1

\* scheduleReconnect
scheduleReconnect ==
  /\ reconnectAttempts' = reconnectAttempts + 1
  /\ reconnectTimer' = Backoff(reconnectAttempts + 1)

\* a variant that schedules a reconnect whichever socket closed
CloseAlwaysReconnects(s) ==
  /\ sockets[s].state # "closed"
  /\ sockets' = [sockets EXCEPT ![s].state = "closed"]
  /\ active' = IF s = active THEN 0 ELSE active
  /\ scheduleReconnect
  /\ UNCHANGED <<draining, messages, handlers, eventsRaw, dispatched, engineVars, hostVars, aggVars>>

\* the 'close' event of a socket: closed by upstream or the network, or the close the
\* connector asked for has completed
Close(s) ==
  /\ sockets[s].state # "closed"
  /\ sockets' = [sockets EXCEPT ![s].state = "closed"]
  /\ IF s = active
     THEN active' = 0 /\ scheduleReconnect
     ELSE UNCHANGED <<active, reconnectAttempts, reconnectTimer>>
  /\ UNCHANGED <<draining, messages, handlers, eventsRaw, dispatched, engineVars, hostVars, aggVars>>

\* the reconnect timer fires
TimerFires ==
  /\ reconnectTimer # 0
  /\ Len(sockets) < MaxSockets
  /\ startSocket(0)
  /\ UNCHANGED <<reconnectAttempts, messages, handlers, eventsRaw, dispatched, engineVars, hostVars, aggVars>>

WelcomeSent(s) ==
  \E i \in 1..Len(messages) : messages[i].sock = s /\ messages[i].type = "session_welcome"

ReconnectSent(s) ==
  \E i \in 1..Len(messages) : messages[i].sock = s /\ messages[i].type = "session_reconnect"

\* the 'message' event of a socket: a handler invocation starts and awaits the insert
Receive(s, type, arg) ==
  /\ sockets[s].state = "open"
  /\ Len(messages) < MaxMessages
  /\ (type = "session_welcome") = ~WelcomeSent(s)
  /\ type = "session_reconnect" => ~ReconnectSent(s)
  /\ messages' = Append(messages, Message(s, type, arg))
  /\ handlers' = handlers \cup {[msg |-> Len(messages) + 1, pc |-> "log"]}
  /\ UNCHANGED <<sockets, active, draining, reconnectAttempts, reconnectTimer, eventsRaw,
                 dispatched, engineVars, hostVars, aggVars>>

Finish(h) == handlers' = handlers \ {h}

Await(h, pc) == handlers' = (handlers \ {h}) \cup {[h EXCEPT !.pc = pc]}

\* the insert into events_raw rejects: the handler's catch logs the error
LogFails(h) ==
  /\ h.pc = "log"
  /\ Finish(h)
  /\ UNCHANGED <<sockets, active, draining, reconnectAttempts, reconnectTimer, messages,
                 eventsRaw, dispatched, engineVars, hostVars, aggVars>>

\* a variant that goes on with the message without recording it
LoggedNothing(h, type, arg) ==
  /\ h.pc = "log"
  /\ messages[h.msg].type = type
  /\ messages[h.msg].arg = arg
  /\ eventsRaw' = eventsRaw

\* the insert into events_raw has resolved: the handler goes on with the message
Logged(h, type, arg) ==
  /\ h.pc = "log"
  /\ messages[h.msg].type = type
  /\ messages[h.msg].arg = arg
  /\ eventsRaw' = eventsRaw \cup {h.msg}

\* a variant that leaves the draining sockets alone
WelcomeKeepsDraining(h) ==
  /\ Logged(h, "session_welcome", TRUE)
  /\ reconnectAttempts' = 0
  /\ reconnectTimer' = 0
  /\ Await(h, "subscribe")
  /\ UNCHANGED <<sockets, draining, active, messages, dispatched, engineVars, hostVars, aggVars>>

\* session_welcome with a session id
Welcome(h) ==
  /\ Logged(h, "session_welcome", TRUE)
  /\ reconnectAttempts' = 0
  /\ reconnectTimer' = 0
  /\ sockets' = [s \in Sockets |->
                   IF s \in draining /\ sockets[s].state = "open"
                   THEN [sockets[s] EXCEPT !.state = "closing"]
                   ELSE sockets[s]]
  /\ draining' = {}
  /\ Await(h, "subscribe")
  /\ UNCHANGED <<active, messages, dispatched, engineVars, hostVars, aggVars>>

\* session_welcome without a session id: throws, the handler's catch logs the error
WelcomeNoId(h) ==
  /\ Logged(h, "session_welcome", FALSE)
  /\ Finish(h)
  /\ UNCHANGED <<sockets, active, draining, reconnectAttempts, reconnectTimer, messages,
                 dispatched, engineVars, hostVars, aggVars>>

\* ensureSubscriptions has returned or thrown
Subscribed(h) ==
  /\ h.pc = "subscribe"
  /\ Finish(h)
  /\ UNCHANGED <<sockets, active, draining, reconnectAttempts, reconnectTimer, messages,
                 eventsRaw, dispatched, engineVars, hostVars, aggVars>>

\* session_reconnect with a reconnect_url
Reconnect(h) ==
  /\ Logged(h, "session_reconnect", TRUE)
  /\ Len(sockets) < MaxSockets
  /\ startSocket(h.msg)
  /\ Finish(h)
  /\ UNCHANGED <<reconnectAttempts, messages, dispatched, engineVars, hostVars, aggVars>>

\* session_reconnect without a reconnect_url, or a message of another type
Ignored(h) ==
  /\ \/ Logged(h, "session_reconnect", FALSE)
     \/ Logged(h, "session_keepalive", TRUE)
  /\ Finish(h)
  /\ UNCHANGED <<sockets, active, draining, reconnectAttempts, reconnectTimer, messages,
                 dispatched, engineVars, hostVars, aggVars>>

\* a variant that drops what a superseded socket delivers
NotificationActiveOnly(h) ==
  /\ Logged(h, "notification", TRUE)
  /\ dispatched' = IF messages[h.msg].sock = active
                   THEN dispatched \cup {h.msg} ELSE dispatched
  /\ Await(h, "notify")
  /\ UNCHANGED <<sockets, active, draining, reconnectAttempts, reconnectTimer, messages,
                 engineVars, hostVars, aggVars>>

\* notification: handed to handleNotification
Notification(h) ==
  /\ Logged(h, "notification", TRUE)
  /\ dispatched' = dispatched \cup {h.msg}
  /\ Await(h, "notify")
  /\ UNCHANGED <<sockets, active, draining, reconnectAttempts, reconnectTimer, messages,
                 engineVars, hostVars, aggVars>>

\* a variant in which the end of handleNotification closes the delivering socket
NotifiedClosesSocket(h) ==
  /\ h.pc = "notify"
  /\ Finish(h)
  /\ sockets' = [sockets EXCEPT ![messages[h.msg].sock].state = "closed"]
  /\ UNCHANGED <<active, draining, reconnectAttempts, reconnectTimer, messages,
                 eventsRaw, dispatched, engineVars, hostVars, aggVars>>

\* handleNotification has returned or thrown
Notified(h) ==
  /\ h.pc = "notify"
  /\ Finish(h)
  /\ UNCHANGED <<sockets, active, draining, reconnectAttempts, reconnectTimer, messages,
                 eventsRaw, dispatched, engineVars, hostVars, aggVars>>

NextConn ==
  \/ \E s \in Sockets : Close(s)
  \/ TimerFires
  \/ \E s \in Sockets, arg \in BOOLEAN : Receive(s, "session_welcome", arg)
  \/ \E s \in Sockets, arg \in BOOLEAN : Receive(s, "session_reconnect", arg)
  \/ \E s \in Sockets : Receive(s, "notification", TRUE)
  \/ \E s \in Sockets : Receive(s, "session_keepalive", TRUE)
  \/ \E h \in handlers : LogFails(h)
  \/ \E h \in handlers : Welcome(h)
  \/ \E h \in handlers : WelcomeNoId(h)
  \/ \E h \in handlers : Subscribed(h)
  \/ \E h \in handlers : Reconnect(h)
  \/ \E h \in handlers : Ignored(h)
  \/ \E h \in handlers : Notification(h)
  \/ \E h \in handlers : Notified(h)

SpecConn == InitConn /\ [][NextConn]_vars

\* ------------------------------------------------ the connector, redialling
\* The connector against an upstream that sends nothing but welcomes and drops
\* connections: the same actions, with room for a long run of reconnects.

\* the reconnect timer fires
Redial ==
  /\ reconnectTimer # 0
  /\ Len(sockets) < MaxRedials
  /\ startSocket(0)
  /\ UNCHANGED <<reconnectAttempts, messages, handlers, eventsRaw, dispatched, engineVars, hostVars, aggVars>>

NextBackoff ==
  \/ \E s \in Sockets : Close(s)
  \/ Redial
  \/ \E s \in Sockets, arg \in BOOLEAN : Receive(s, "session_welcome", arg)
  \/ \E h \in handlers : LogFails(h)
  \/ \E h \in handlers : Welcome(h)
  \/ \E h \in handlers : WelcomeNoId(h)
  \/ \E h \in handlers : Subscribed(h)

SpecBackoff == InitConn /\ [][NextBackoff]_vars

\* ------------------------------------------------- ensureSubscriptions, step by step
\* Subscribed above is the whole of ensureSubscriptions; here each of its awaits is a
\* step. A handler in it carries the answers its createEventSubSubscription calls
\* have had so far; the topic being attempted is the next of Topics.

Topics == <<"stream.online", "stream.offline", "channel.update">>

\* createEventSubSubscription resolves, rejects with 409/Conflict, rejects otherwise
Outcomes == {"created", "conflict", "failed"}

\* await getUserAccessToken(...) resolves: the first safeCreateSub is called
UserToken(h) ==
  /\ h.pc = "subscribe"
  /\ handlers' = (handlers \ {h}) \cup {[msg |-> h.msg, pc |-> "createSub", results |-> <<>>]}
  /\ UNCHANGED <<sockets, active, draining, reconnectAttempts, reconnectTimer, messages,
                 eventsRaw, dispatched, engineVars, hostVars, aggVars>>

\* await getUserAccessToken(...) rejects: ensureSubscriptions throws, the welcome
\* branch warns and returns
UserTokenFails(h) ==
  /\ h.pc = "subscribe"
  /\ Finish(h)
  /\ UNCHANGED <<sockets, active, draining, reconnectAttempts, reconnectTimer, messages,
                 eventsRaw, dispatched, engineVars, hostVars, aggVars>>

\* a variant that lets the 409 escape
safeCreateSubRethrows(h, outcome) ==
  /\ h.pc = "createSub"
  /\ handlers' = (handlers \ {h}) \cup
       (IF outcome = "conflict" \/ Len(h.results) + 1 = Len(Topics)
        THEN {} ELSE {[h EXCEPT !.results = Append(@, outcome)]})
  /\ UNCHANGED <<sockets, active, draining, reconnectAttempts, reconnectTimer, messages,
                 eventsRaw, dispatched, engineVars, hostVars, aggVars>>

\* safeCreateSub: whatever the answer it returns normally; after the third topic
\* ensureSubscriptions and the handler return
safeCreateSub(h, outcome) ==
  /\ h.pc = "createSub"
  /\ handlers' = (handlers \ {h}) \cup
       (IF Len(h.results) + 1 = Len(Topics)
        THEN {} ELSE {[h EXCEPT !.results = Append(@, outcome)]})
  /\ UNCHANGED <<sockets, active, draining, reconnectAttempts, reconnectTimer, messages,
                 eventsRaw, dispatched, engineVars, hostVars, aggVars>>

NextSubs ==
  \/ \E s \in Sockets : Close(s)
  \/ TimerFires
  \/ \E s \in Sockets, arg \in BOOLEAN : Receive(s, "session_welcome", arg)
  \/ \E h \in handlers : LogFails(h)
  \/ \E h \in handlers : Welcome(h)
  \/ \E h \in handlers : WelcomeNoId(h)
  \/ \E h \in handlers : UserToken(h)
  \/ \E h \in handlers : UserTokenFails(h)
  \/ \E h \in handlers, outcome \in Outcomes : safeCreateSub(h, outcome)

SpecSubs == InitConn /\ [][NextSubs]_vars

\* ------------------------------------------------------ the global aggregate
\* getGlobalGameTotals over category_segments and the hand-maintained baseline_games.
\* Of each result row the game and total_seconds are kept (last_seen is left out), and
\* the result is a set (its ORDER BY is left out). total_hours is a whole number of hours.

MaxSegRows == 2
MaxBaselineRows == 2
MaxExports == 2

SecondsPerHour == 3600

\* total_hours NUMERIC NULL
NoHours == -1
Hours == {NoHours, 1, 2}

GameNames == {"Chess", "chess", "Poker"}

\* lower(), on the names above
Lower(name) ==
  CASE name = "Chess" -> "chess"
    [] name = "Poker" -> "poker"
    [] OTHER -> name

\* COALESCE(total_hours, 0)
CoalesceHours(h) == IF h = NoHours THEN 0 ELSE h

\* SUM(duration_seconds)
RECURSIVE SumSeconds(_)
SumSeconds(rows) ==
  IF rows = {} THEN 0
  ELSE LET g == CHOOSE x \in rows : TRUE
       IN g.durationSeconds + SumSeconds(rows \ {g})

BaselineKeys(bl) == {Lower(b.gameName) : b \in bl}

\* DISTINCT ON (lower(game_name)) ... ORDER BY lower(game_name), inserted_at DESC:
\* of the rows of one key, one with the greatest inserted_at (any of them on a tie)
LatestBaseline(bl, k) ==
  {b \in bl : /\ Lower(b.gameName) = k
              /\ \A o \in bl : Lower(o.gameName) = k => o.insertedAt <= b.insertedAt}

\* CTE baseline: the results the query may produce, each a row per key
BaselineCTE(bl) ==
  {f \in [BaselineKeys(bl) -> bl] : \A k \in BaselineKeys(bl) : f[k] \in LatestBaseline(bl, k)}

Finalized(segs) == {g \in segs : g.durationSeconds # NoDur}

\* CTE seg: WHERE duration_seconds IS NOT NULL GROUP BY lower(category_name), category_name
SegCTE(segs) ==
  {[k |-> Lower(n), categoryName |-> n,
    totalSeconds |-> SumSeconds({g \in Finalized(segs) : g.categoryName = n})] :
     n \in {g.categoryName : g \in Finalized(segs)}}

\* CTE merged: seg FULL OUTER JOIN baseline ON seg.k = baseline.k
Merged(segs, base) ==
  {[game |-> s.categoryName,
    totalSeconds |-> s.totalSeconds +
                     (IF s.k \in DOMAIN base
                      THEN CoalesceHours(base[s.k].totalHours) * SecondsPerHour ELSE 0)] :
     s \in SegCTE(segs)}
  \cup
  {[game |-> base[k].gameName,
    totalSeconds |-> CoalesceHours(base[k].totalHours) * SecondsPerHour] :
     k \in DOMAIN base \ {s.k : s \in SegCTE(segs)}}

\* the results getGlobalGameTotals may return
getGlobalGameTotals(segs, bl) == {Merged(segs, base) : base \in BaselineCTE(bl)}

\* rows of category_segments as closeOpenSegment leaves them: open, or closed with the
\* duration computed from the two instants
SegRows ==
  {[streamId |-> [src |-> "event", n |-> 1], categoryId |-> "null", categoryName |-> n,
    startedAt |-> a, endedAt |-> e,
    durationSeconds |-> IF e = NoTime THEN NoDur ELSE Duration(e, a)] :
     n \in GameNames, a \in Times, e \in {NoTime} \cup Times}

\* the tables of at most n such rows
RECURSIVE TablesUpTo(_)
TablesUpTo(n) ==
  IF n = 0 THEN {{}}
  ELSE TablesUpTo(n - 1) \cup
       {tb \cup {g} : tb \in TablesUpTo(n - 1),
                      g \in {r \in SegRows : r.endedAt = NoTime \/ r.endedAt >= r.startedAt}}

\* UNIQUE(stream_id, started_at, category_name)
SegTables == {tb \in TablesUpTo(MaxSegRows) : \A g, h \in tb : SameRow(g, h) => g = h}

InitTotals ==
  /\ streams = <<>>
  /\ segments \in SegTables
  /\ tasks = [t \in Tasks |-> IdleTask]
  /\ started = 0
  /\ exports = 0
  /\ last = NoEvent
  /\ script = <<>>
  /\ sockets = <<>>
  /\ active = 0
  /\ draining = {}
  /\ reconnectAttempts = 0
  /\ reconnectTimer = 0
  /\ messages = <<>>
  /\ handlers = {}
  /\ eventsRaw = {}
  /\ dispatched = {}
  /\ process = "running"
  /\ baselineGames = {}
  /\ totals = {}

\* a row is inserted by hand: id BIGSERIAL, inserted_at DEFAULT NOW()
InsertBaseline ==
  /\ Cardinality(baselineGames) < MaxBaselineRows
  /\ \E name \in GameNames, hours \in Hours, at \in Times :
       /\ \A b \in baselineGames : b.insertedAt <= at
       /\ baselineGames' = baselineGames \cup
            {[id |-> Cardinality(baselineGames) + 1, insertedAt |-> at,
              gameName |-> name, totalHours |-> hours]}
  /\ UNCHANGED <<engineVars, connVars, hostVars, totals>>

\* exportTotalsToSheet: const aggregates = await getGlobalGameTotals(pool)
ExportTotals ==
  /\ exports < MaxExports
  /\ exports' = exports + 1
  /\ totals' \in getGlobalGameTotals(segments, baselineGames)
  /\ UNCHANGED <<streams, segments, tasks, started, last, script, connVars, hostVars,
                 baselineGames>>

NextTotals ==
  \/ InsertBaseline
  \/ ExportTotals

SpecTotals == InitTotals /\ [][NextTotals]_vars

\* ---------------------------------------------------------------- claims

Active == ActiveStreams(streams, Broadcaster)
SessionSegments(segs, sid) == {g \in segs : g.streamId = sid}

\* a serial step: one handler invocation ran, described by last'
RanKind(kind) == started' # started /\ last'.kind = kind

\* C1: at most one session (streams row) of the broadcaster has endedAt = null.
C1_AtMostOneActiveSession == Cardinality(Active) <= 1

\* C2: each session has at most one segment with endedAt = null.
C2_AtMostOneOpenSegment ==
  \A s \in DOMAIN streams : Cardinality(OpenSegments(segments, s)) <= 1

\* C3: engine operations are mutually exclusive: while one invocation is between its
\* first store access and its last store write, no other invocation accesses the store.
StorePcs == {"upsert", "startSeg", "getActive", "rotRead", "closeRead", "closeWrite",
             "markOffline"}

InCritical(t) ==
  \/ tasks[t].pc \in {"fetchGame", "closeRead", "closeWrite", "startSeg", "markOffline"}
  \/ tasks[t].kind = "reconcile" /\ tasks[t].pc = "upsert"

C3_MutualExclusion ==
  [][~ \E t \in Tasks, u \in Tasks :
        /\ t # u
        /\ InCritical(t)
        /\ tasks[u].pc \in StorePcs
        /\ tasks'[u] # tasks[u]]_vars

\* C4: once a session's endedAt is set, its endedAt and endReason never change.
C4_ClosedExactlyOnce ==
  [][\A s \in DOMAIN streams :
       streams[s].endedAt # NoTime =>
         /\ streams'[s].endedAt = streams[s].endedAt
         /\ streams'[s].endedReason = streams[s].endedReason]_vars

\* C5: a second went-live for the broadcaster (any timestamp) leaves exactly one active
\* session, started at the earlier of the session's start and the event time.
C5_IdempotentStart ==
  [][(RanKind("online") /\ Cardinality(Active) = 1) =>
       \E a \in Active :
         /\ ActiveStreams(streams', Broadcaster) = {a}
         /\ streams'[a].startedAt = Min(streams[a].startedAt, last'.ts)]_vars

\* C6: every step leaves each existing session's startedAt less than or equal to its
\* previous value.
C6_StartNeverMovesLater ==
  [][\A s \in DOMAIN streams :
       /\ s \in DOMAIN streams'
       /\ streams'[s].startedAt <= streams[s].startedAt]_vars

\* C6 witness: an upsert has run against an existing session with a later start time
C6_LaterUpsertSeen ==
  \E t \in Tasks :
    /\ tasks[t].pc = "fetchGame"
    /\ tasks[t].streamId \in DOMAIN streams
    /\ tasks[t].ts > streams[tasks[t].streamId].startedAt

\* C7: a went-live that arrives while the broadcaster has an active session creates no
\* session and no segment and closes nothing (only startedAt may move earlier).
C7_DuplicateOnlineNoOp ==
  [][(RanKind("online") /\ Active # {}) =>
       /\ DOMAIN streams' = DOMAIN streams
       /\ segments' = segments
       /\ \A s \in DOMAIN streams : streams'[s].endedAt = streams[s].endedAt]_vars

\* C8: the segments of a session are contiguous and non-overlapping: each closed segment
\* has endedAt >= startedAt, overlaps no other segment, and ends where the next starts;
\* a category change preserves this.
End(g) == IF g.endedAt = NoTime THEN MaxTime + 1 ELSE g.endedAt

Contiguous(segs, sid) ==
  \A g \in SessionSegments(segs, sid) :
    g.endedAt # NoTime =>
      /\ g.endedAt >= g.startedAt
      /\ \A h \in SessionSegments(segs, sid) \ {g} :
           ~(h.startedAt < g.endedAt /\ g.startedAt < End(h))
      /\ (\E h \in SessionSegments(segs, sid) \ {g} : h.startedAt >= g.endedAt) =>
           (\E h \in SessionSegments(segs, sid) \ {g} : h.startedAt = g.endedAt)

C8_RotationKeepsContiguous ==
  [][(/\ RanKind("update") /\ last'.ok
      /\ last'.streamId # NoStream
      /\ Cardinality(OpenSegments(segments, last'.streamId)) = 1
      /\ Contiguous(segments, last'.streamId)) =>
       Contiguous(segments', last'.streamId)]_vars

\* C9 (as stated): a category change whose category equals the open segment's by id or
\* by name creates no segment and closes none.
SameByIdOrName(open, cat) ==
  \/ open.categoryName = cat.name
  \/ open.categoryId # "null" /\ open.categoryId = cat.id

C9_SameByIdOrNameNoRotation ==
  [][(/\ RanKind("update")
      /\ last'.streamId # NoStream
      /\ \A o \in getOpenSegment(segments, last'.streamId) :
           o # NoSeg /\ SameByIdOrName(o, last'.cat)) =>
       segments' = segments]_vars

\* C9 (amended): a category change whose category equals the open segment's by name and
\* by id (two null ids being equal) creates no segment and closes none.
C9_SameNameAndIdNoRotation ==
  [][(/\ RanKind("update")
      /\ last'.streamId # NoStream
      /\ \A o \in getOpenSegment(segments, last'.streamId) :
           /\ o # NoSeg
           /\ o.categoryName = last'.cat.name
           /\ o.categoryId = last'.cat.id) =>
       (segments' = segments /\ streams' = streams)]_vars

\* C9 witness: a category change ran on a session whose only segment is open, carries
\* the event's category and started at another instant
C9_SuppressedSeen ==
  /\ last.kind = "update" /\ last.ok
  /\ last.streamId # NoStream
  /\ \E g \in segments :
       /\ SessionSegments(segments, last.streamId) = {g}
       /\ g.endedAt = NoTime
       /\ g.categoryName = last.cat.name
       /\ g.categoryId = last.cat.id
       /\ g.startedAt # last.ts

\* C10: a category change at `at` to a category other than the open segment's closes
\* that segment at `at` and leaves exactly one open segment: the new category, from `at`.
C10_RotationOpensNew ==
  [][(/\ RanKind("update") /\ last'.ok
      /\ last'.streamId # NoStream
      /\ \E o \in segments :
           /\ OpenSegments(segments, last'.streamId) = {o}
           /\ o.categoryName # last'.cat.name) =>
       \E o \in segments, n \in segments' :
         /\ OpenSegments(segments, last'.streamId) = {o}
         /\ [o EXCEPT !.endedAt = last'.ts,
                      !.durationSeconds = Duration(last'.ts, o.startedAt)] \in segments'
         /\ OpenSegments(segments', last'.streamId) = {n}
         /\ n.categoryName = last'.cat.name
         /\ n.categoryId = last'.cat.id
         /\ n.startedAt = last'.ts]_vars

\* C11: every closed segment has durationSeconds = max(0, floor((endedAt - startedAt) /
\* 1s)), which is never negative, also when it was closed before its startedAt.
C11_DurationFlooredNonNegative ==
  \A g \in segments :
    g.endedAt # NoTime =>
      /\ g.durationSeconds >= 0
      /\ IF g.endedAt <= g.startedAt
         THEN g.durationSeconds = 0
         ELSE /\ g.durationSeconds * TicksPerSecond <= g.endedAt - g.startedAt
              /\ g.endedAt - g.startedAt < (g.durationSeconds + 1) * TicksPerSecond

\* C11 witness: a segment was closed at an instant before its startedAt
C11_ClosedBeforeStartSeen ==
  \E g \in segments : g.endedAt # NoTime /\ g.endedAt < g.startedAt

\* C12: after a stream.offline at `at` is handled while a session is active, that session
\* has endedAt = at and the event's end reason, none of its segments is open, and its
\* last segment has endedAt = at.
LastSegments(segs, sid) ==
  {g \in SessionSegments(segs, sid) :
     \A h \in SessionSegments(segs, sid) : h.startedAt <= g.startedAt}

C12_OfflineClosesSession ==
  [][(RanKind("offline") /\ last'.ok /\ last'.streamId # NoStream) =>
       /\ streams'[last'.streamId].endedAt = last'.ts
       /\ streams'[last'.streamId].endedReason = "offline_event"
       /\ OpenSegments(segments', last'.streamId) = {}
       /\ \A g \in LastSegments(segments', last'.streamId) : g.endedAt = last'.ts]_vars

\* C13: with no active session, a channel.update or stream.offline is a no-op: no session
\* or segment is created, closed or modified, and no export is started.
C13_NoActiveSessionNoOp ==
  [][((RanKind("update") \/ RanKind("offline")) /\ Active = {}) =>
       UNCHANGED <<streams, segments, exports>>]_vars

\* C13 witness: a channel.update or stream.offline ran after the only session had ended
C13_AbsorbedSeen ==
  /\ last.kind \in {"update", "offline"} /\ last.ok
  /\ last.streamId = NoStream
  /\ DOMAIN streams # {}
  /\ Active = {}

\* C14: with a local active session and upstream not live, a reconcile run at `now` ends
\* the session at `now` with the recovered-by-reconciliation reason, leaves it no open
\* segment, and the durations of its segments sum to the whole seconds between the
\* session's startedAt and `now`.
RECURSIVE SumDurations(_)
SumDurations(segs) ==
  IF segs = {} THEN 0
  ELSE LET g == CHOOSE x \in segs : TRUE
       IN (IF g.endedAt = NoTime THEN 0 ELSE g.durationSeconds) + SumDurations(segs \ {g})

WholeSeconds(from, to) == IF to <= from THEN 0 ELSE (to - from) \div TicksPerSecond

C14_ReconcileRecoversOffline ==
  [][(RanKind("reconcile") /\ last'.ok /\ ~last'.live /\ last'.streamId # NoStream) =>
       /\ streams'[last'.streamId].endedAt = last'.ts
       /\ streams'[last'.streamId].endedReason = "recovered_offline"
       /\ OpenSegments(segments', last'.streamId) = {}
       /\ SumDurations(SessionSegments(segments', last'.streamId))
            = WholeSeconds(streams[last'.streamId].startedAt, last'.ts)]_vars

\* C15: with upstream live and no local active session, a reconcile run creates exactly
\* one session, started at the upstream start time (or now), and exactly one open segment
\* for it, carrying the upstream category.
C15_ReconcileRecoversOnline ==
  [][(RanKind("reconcile") /\ last'.ok /\ last'.live /\ Active = {}) =>
       \E s \in DOMAIN streams' \ DOMAIN streams :
         /\ DOMAIN streams' = DOMAIN streams \cup {s}
         /\ streams'[s].startedAt = last'.ts
         /\ streams'[s].endedAt = NoTime
         /\ \E n \in segments' \ segments :
              /\ segments' = segments \cup {n}
              /\ n.streamId = s
              /\ n.endedAt = NoTime
              /\ n.categoryId = last'.cat.id
              /\ n.categoryName = last'.cat.name]_vars

\* C16: reconcile is idempotent: a second run right after a first one, against the same
\* upstream status, changes no session and no segment.
SameUpstream(e, f) ==
  /\ e.live = f.live
  /\ (e.live /\ e.cat # UnknownCat /\ f.cat # UnknownCat) =>
       (e.ts = f.ts /\ e.streamId = f.streamId /\ e.cat = f.cat)

C16_ReconcileIdempotent ==
  [][(/\ RanKind("reconcile") /\ last'.ok
      /\ last.kind = "reconcile" /\ last.ok
      /\ SameUpstream(last, last')) =>
       UNCHANGED <<streams, segments>>]_vars

\* C17: from an empty store, went-live (s1, t0, Chess), category change (Poker, t0 + 600 s),
\* went-offline (t0 + 1800 s) leave exactly two segments, both closed: Chess with
\* durationSeconds 600 and Poker with durationSeconds 1200, and s1 has endedAt = t0 + 1800 s.
C17_ChessPokerScenario ==
  (script \in ScenarioScripts /\ started = Len(script)) =>
    /\ Cardinality(segments) = 2
    /\ \E g \in segments :
         /\ g.categoryName = "Chess"
         /\ g.endedAt # NoTime
         /\ g.durationSeconds = 600
    /\ \E g \in segments :
         /\ g.categoryName = "Poker"
         /\ g.endedAt # NoTime
         /\ g.durationSeconds = 1200
    /\ \A g \in segments : g.streamId = script[1].streamId
    /\ streams[script[1].streamId].endedAt = script[1].ts + 1800 * TicksPerSecond

\* C17 witness: the scenario has run to its end, from a start off the whole second
C17_ScenarioRunSeen ==
  /\ script \in ScenarioScripts
  /\ started = Len(script)
  /\ script[1].ts = 1

\* C18: handling the same notification twice in immediate succession leaves the sessions
\* and segments as handling it once did.
SameNotification(e, f) ==
  /\ e.kind = f.kind
  /\ e.kind \in {"online", "update", "offline"}
  /\ e.ts = f.ts
  /\ e.kind = "online" => e.streamId = f.streamId
  /\ e.kind = "update" => e.cat = f.cat

C18_DuplicateDeliveryIdempotent ==
  [][(started' # started /\ last.ok /\ last'.ok /\ SameNotification(last, last')) =>
       UNCHANGED <<streams, segments>>]_vars

\* C19: delivering again a channel.update that was already applied, after a later
\* channel.update has been applied, leaves the session's segments unchanged.
C19_RedeliveryLeavesSegments ==
  [][(script \in RedeliveryScripts /\ started = 3 /\ started' = 4) =>
       segments' = segments]_vars

\* C20: on a session_reconnect with a URL the connector opens a connection to that URL
\* and closes no connection; and it force-closes a draining connection only after the
\* connection that superseded it has received its session_welcome.
Superseder(s) == s + 1

C20_DrainedAfterSupersederWelcomed ==
  [][/\ \A h \in handlers :
          (/\ h.pc = "log" /\ h \notin handlers' /\ h.msg \in eventsRaw'
           /\ messages[h.msg].type = "session_reconnect" /\ messages[h.msg].arg) =>
            /\ Len(sockets') = Len(sockets) + 1
            /\ sockets'[Len(sockets')].url = h.msg
            /\ \A s \in Sockets : sockets'[s] = sockets[s]
     /\ \A s \in Sockets :
          (sockets[s].state = "open" /\ sockets'[s].state = "closing") =>
            /\ Superseder(s) \in Sockets
            /\ WelcomeSent(Superseder(s))]_vars

\* C21: at most one connection is designated active at any time, and every other
\* connection that is still open is in the draining set.
C21_OneActiveOthersDraining ==
  /\ active \in Sockets \cup {0}
  /\ active # 0 => sockets[active].state = "open"
  /\ \A s \in Sockets : (sockets[s].state = "open" /\ s # active) => s \in draining

\* C21 witness: after a migration the superseded connection is open and draining while
\* the new one is active
C21_MigrationOverlapSeen ==
  /\ active # 0
  /\ sockets[active].url # 0
  /\ \E s \in draining : sockets[s].state = "open"

\* C22: after an unexpected close of the active connection a reconnect timer is pending
\* until a new connection is started: the connector is never left with no active
\* connection and no pending reconnect timer.
C22_ActiveOrReconnectPending == active = 0 => reconnectTimer # 0

\* C23: the n-th reconnect scheduled since the last welcome waits 1, 2, 4, 8, 16, 30,
\* 30, ... seconds; the attempt counter goes up by exactly one per scheduled reconnect
\* and is zero again once a welcome with a session id has been processed.
DelayTable == <<1000, 2000, 4000, 8000, 16000, 30000, 30000, 30000>>

WelcomeProcessed ==
  \E h \in handlers : h.pc = "log" /\ [h EXCEPT !.pc = "subscribe"] \in handlers'

C23_BackoffSchedule ==
  [][/\ (reconnectTimer' # 0 /\ reconnectTimer' # reconnectTimer) =>
          reconnectAttempts' = reconnectAttempts + 1
     /\ (reconnectAttempts' # reconnectAttempts /\ reconnectAttempts' # 0) =>
          /\ reconnectAttempts' = reconnectAttempts + 1
          /\ reconnectTimer' = DelayTable[reconnectAttempts']
     /\ WelcomeProcessed => reconnectAttempts' = 0]_vars

\* C23 witness: the seventh reconnect in a row is pending, at the capped delay
C23_SeventhAttemptSeen == reconnectAttempts = 7 /\ reconnectTimer = 30000

\* C24: processing a session_welcome with a session id on a fresh (default endpoint)
\* connection resets the attempt counter to zero and closes every draining connection,
\* leaving the draining set empty.
C24_FreshWelcomeResetsAndDrains ==
  [][\A h \in handlers :
       (/\ h.pc = "log"
        /\ [h EXCEPT !.pc = "subscribe"] \in handlers'
        /\ sockets[messages[h.msg].sock].url = 0) =>
         /\ reconnectAttempts' = 0
         /\ draining' = {}
         /\ \A s \in draining : sockets'[s].state # "open"]_vars

\* C24 witness: the welcome of a fresh connection has been processed and closed an open
\* draining connection
C24_FreshWelcomeDrainedSeen ==
  /\ draining = {}
  /\ \E h \in handlers :
       /\ h.pc = "subscribe"
       /\ sockets[messages[h.msg].sock].url = 0
       /\ \E s \in Sockets : sockets[s].state = "closing"

\* C25: a message is recorded in events_raw before it is interpreted: a handler that
\* has not recorded its message changes no connector state and dispatches nothing, and
\* every subscription request and every dispatch belongs to a recorded message.
C25_RecordBeforeDispatch ==
  [][/\ (\A h \in handlers : h.pc = "log" => h.msg \notin eventsRaw') =>
          \/ handlers' = handlers \cup {[msg |-> Len(messages'), pc |-> "log"]}
          \/ handlers' = handlers /\ dispatched' = dispatched
          \/ /\ handlers' \subseteq handlers
             /\ UNCHANGED <<sockets, active, draining, reconnectAttempts, reconnectTimer,
                            dispatched>>
     /\ dispatched' \subseteq eventsRaw'
     /\ \A h \in handlers' : h.pc # "log" => h.msg \in eventsRaw'
     /\ \A s \in DOMAIN sockets' : sockets'[s].url # 0 => sockets'[s].url \in eventsRaw'
     /\ eventsRaw \subseteq eventsRaw']_vars

\* C25 witness: a recorded notification has been dispatched and a recorded
\* session_reconnect has started a socket
C25_RecordedThenActedSeen ==
  /\ dispatched # {}
  /\ \E s \in Sockets : sockets[s].url # 0

\* C26: a failure while handling a notification is swallowed: the step that ends the
\* handler (the raw insert rejected, or handleNotification returned or threw) leaves
\* every socket, the active / draining designation, the attempt counter and the timer
\* as they were, and ends no other handler.
C26_NotificationFailureSwallowed ==
  [][\A h \in handlers :
       (messages[h.msg].type = "notification" /\ h \notin handlers') =>
         /\ UNCHANGED <<sockets, active, draining, reconnectAttempts, reconnectTimer>>
         /\ handlers \ {h} \subseteq handlers']_vars

\* C26 witness: a notification handler has ended, its connection is still open and a
\* later message of that connection has been recorded
C26_LaterMessageSeen ==
  \E m \in dispatched :
    /\ \A h \in handlers : h.msg # m
    /\ sockets[messages[m].sock].state = "open"
    /\ \E k \in eventsRaw : k > m /\ messages[k].sock = messages[m].sock

\* C27: when the handler of a session_welcome that carries no session id ends
\* (the message recorded, the protocol error logged), the connection that
\* delivered it is no longer open and a reconnect has been initiated: the
\* reconnect timer is pending or a new socket has been started.
C27_NoIdWelcomeTearsDown ==
  [][\A h \in handlers :
       ( /\ h.pc = "log"
         /\ messages[h.msg].type = "session_welcome"
         /\ messages[h.msg].arg = FALSE
         /\ h.msg \in eventsRaw'
         /\ h \notin handlers' ) =>
         /\ sockets'[messages[h.msg].sock].state # "open"
         /\ reconnectTimer' # 0 \/ Len(sockets') > Len(sockets)]_vars

\* C28: once the broadcaster identity has been resolved the process does not
\* terminate, whatever fails in reconciliation or notification handling; in
\* particular not when the eager reconcile run at start fails.
C28_NoExitAfterIdentity ==
  [][(process \in {"reconcileStreamState", "running"}) => (process' # "exited")]_vars

\* C29: in the handler of a went-live event the upstream call that fetches the
\* current category is the first thing awaited: the handler reaches that call
\* straight from its entry, never from the await of a store write.
C29_FetchBeforeStoreWrites ==
  [][\A t \in Tasks :
       (tasks'[t].kind = "online" /\ tasks'[t].pc = "fetchGame" /\ tasks[t].pc # "fetchGame")
         => tasks[t].pc = "idle"]_vars

\* the case-insensitive names the aggregate has to cover
GameKeys(segs, bl) == {Lower(g.categoryName) : g \in Finalized(segs)} \cup BaselineKeys(bl)

\* the hours the latest baseline row of a key may give (0 with no row)
LatestHours(bl, k) ==
  IF LatestBaseline(bl, k) = {} THEN {0}
  ELSE {CoalesceHours(b.totalHours) : b \in LatestBaseline(bl, k)}

\* C30: the global aggregate has exactly one entry per case-insensitive game name
\* that has a closed segment or a baseline row, and no other entry; the entry's
\* total is the hours of the latest baseline row of that name times 3600 plus the
\* durations of all closed segments of that name.
C30_OneEntryPerGame ==
  [][exports' # exports =>
       /\ \A e \in totals' : Lower(e.game) \in GameKeys(segments, baselineGames)
       /\ \A k \in GameKeys(segments, baselineGames) :
            /\ Cardinality({e \in totals' : Lower(e.game) = k}) = 1
            /\ \E h \in LatestHours(baselineGames, k) :
                 \A e \in totals' :
                   Lower(e.game) = k =>
                     e.totalSeconds =
                       h * SecondsPerHour +
                       SumSeconds({g \in Finalized(segments) : Lower(g.categoryName) = k})]_vars

\* C31: a notification whose insert into events_raw has resolved is handed to
\* handleNotification whichever connection delivered it, the active one or a
\* superseded one; the connector suppresses none.
C31_DrainingStillDispatched ==
  [][\A h \in handlers :
       ( /\ messages[h.msg].type = "notification"
         /\ h.msg \notin eventsRaw
         /\ h.msg \in eventsRaw' ) => h.msg \in dispatched']_vars

\* C31 witness: a dispatched notification was received on a socket after the socket
\* that supersedes it (started from that socket's session_reconnect) had delivered
\* a message
C31_DispatchedFromDrainingSeen ==
  \E m \in dispatched, j \in Sockets :
    /\ sockets[j].url # 0
    /\ messages[sockets[j].url].sock = messages[m].sock
    /\ \E w \in 1..(m - 1) : messages[w].sock = j

\* C32: an export is started only by the handler of a stream.offline notification
\* or by a reconcile run, and only once the session that handler dealt with has
\* been marked ended; stream.online, channel.update and reconcile runs that end no
\* session start none.
C32_ExportAfterSessionEnded ==
  [][exports' # exports =>
       \E t \in Tasks :
         /\ tasks'[t] # tasks[t]
         /\ tasks[t].kind \in {"offline", "reconcile"}
         /\ tasks[t].streamId \in DOMAIN streams
         /\ streams[tasks[t].streamId].endedAt # NoTime]_vars

\* C32 witness: two exports have been started and a session has been ended by a
\* reconcile run
C32_ExportsStartedSeen ==
  /\ exports = 2
  /\ \E s \in DOMAIN streams : streams[s].endedReason = "recovered_offline"

\* C33: the close of a socket that is not the active one schedules no reconnect:
\* the active designation, the attempt counter and the reconnect timer stay as
\* they are.
C33_CloseOfSupersededIsInert ==
  [][\A s \in Sockets :
       (sockets[s].state # "closed" /\ sockets'[s].state = "closed" /\ s # active) =>
         UNCHANGED <<active, reconnectAttempts, reconnectTimer>>]_vars

\* C33 witness: the first socket has closed after a session_reconnect superseded it
\* (no reconnect was ever scheduled, no welcome was ever processed)
C33_SupersededClosedSeen ==
  /\ Len(sockets) = 2
  /\ sockets[1].state = "closed"
  /\ active = 2
  /\ sockets[2].url # 0
  /\ reconnectAttempts = 0
  /\ \A m \in eventsRaw : messages[m].type # "session_welcome"

\* the handler of a welcome with a session id, its insert resolved, goes on to
\* ensureSubscriptions
WelcomeSubscribes ==
  \A h \in handlers :
    ( /\ h.pc = "log"
      /\ messages[h.msg].type = "session_welcome"
      /\ messages[h.msg].arg
      /\ h.msg \in eventsRaw' ) => [h EXCEPT !.pc = "subscribe"] \in handlers'

FirstTopic(h) == [msg |-> h.msg, pc |-> "createSub", results |-> <<>>]

\* a handler that has had an answer for one topic goes on to the next topic, or
\* returns after the third, and the connector is left as it is
TopicsGoOn ==
  \A h \in handlers :
    (h.pc = "createSub" /\ h \notin handlers') =>
      /\ \E o \in Outcomes :
           IF Len(h.results) + 1 = Len(Topics)
           THEN \A g \in handlers' : g.msg # h.msg
           ELSE [h EXCEPT !.results = Append(@, o)] \in handlers'
      /\ UNCHANGED <<sockets, active, draining, reconnectAttempts, reconnectTimer>>

C35_AppliedInReceiptOrder ==
  [][\A m \in dispatched' \ dispatched :
       \A k \in 1..(m - 1) :
         (messages[k].sock = messages[m].sock /\ messages[k].type = "notification") =>
           \A h \in handlers : h.msg # k]_vars

\* C36: a session whose endedAt is set has no open segment afterwards and gets no
\* new segment, whatever notification or reconcile run is handled next.
C36_EndedSessionIsFrozen ==
  [][\A s \in DOMAIN streams :
       streams[s].endedAt # NoTime =>
         /\ OpenSegments(segments', s) = {}
         /\ {SegSnapshot(g) : g \in SessionSegments(segments', s)}
              \subseteq {SegSnapshot(g) : g \in SessionSegments(segments, s)}]_vars

\* C37: whenever no handler invocation is in progress, every active session has
\* at least one open segment.
C37_ActiveSessionHasOpenSegment ==
  (\A t \in Tasks : Free(t)) =>
    \A s \in Active : OpenSegments(segments, s) # {}

\* C38: a segment whose endedAt is set keeps its endedAt and durationSeconds in
\* every later step, whichever handlers run and however they interleave.
C38_ClosedSegmentIsFinal ==
  [][\A g \in segments : g.endedAt # NoTime => g \in segments']_vars

\* C39: a reconcile run whose upstream answer agrees with the local state (live
\* and a local active session, whatever its id; not live and no local active
\* session) changes no session and no segment and starts no export.
C39_AgreeingReconcileIsNoOp ==
  [][(RanKind("reconcile") /\ last'.ok /\ last'.live = (Active # {})) =>
       UNCHANGED <<streams, segments, exports>>]_vars

\* C39 witness: a reconcile run found upstream live and a local active session
C39_AgreeingRunSeen ==
  /\ last.kind = "reconcile" /\ last.ok /\ last.live
  /\ last.streamId \in Active
  /\ last.ts = NoTime

\* C40: at most one reconnect timer is pending at any time (a reconnect is
\* scheduled only when none is pending), and none is pending while a connection
\* is designated active.
C40_OneTimerNoneWhileActive ==
  [][/\ active # 0 => reconnectTimer = 0
     /\ active' # 0 => reconnectTimer' = 0
     /\ reconnectAttempts' = reconnectAttempts + 1 =>
          reconnectTimer = 0 /\ reconnectTimer' # 0]_vars

\* C40 witness: two reconnects were scheduled one after the other, the timer of the
\* second has fired and its socket is the active one
C40_SecondRedialActiveSeen ==
  /\ reconnectAttempts = 2
  /\ reconnectTimer = 0
  /\ active # 0 /\ sockets[active].url = 0

====
